---- MODULE Spec2Model ----
(***************************************************************************)
(* Model of app.py: a FastAPI service that greets users and records them   *)
(* in a PostgreSQL table `users`.                                          *)
(*                                                                         *)
(* The handlers are `async def` without an await: a worker process runs a  *)
(* handler to its return before it takes the next request, and requests    *)
(* interleave only between worker processes, at their store calls.  Each   *)
(* handler is therefore split at its store calls, and every store call may *)
(* fail.  When a handler returns, its frame is gone: the worker is idle     *)
(* again; `returned` shows what it returned until the next step.           *)
(*                                                                         *)
(* The store is modelled as PostgreSQL behaves under psycopg2's defaults:  *)
(*   - a connection opens a transaction at its first statement and the     *)
(*     transaction runs READ COMMITTED: a SELECT sees committed rows only; *)
(*   - CURRENT_TIMESTAMP is the start time of the transaction;             *)
(*   - SERIAL numbers the rows from a sequence (the values the sequence    *)
(*     loses to refused INSERTs are not modelled: the service never reads  *)
(*     an id);                                                             *)
(*   - an INSERT whose username is held by another transaction's           *)
(*     uncommitted row waits for that transaction to end;                  *)
(*   - ORDER BY leaves the order of rows with equal keys open.             *)
(* Opening a connection takes longer than the clock's resolution: the      *)
(* clock advances whenever a handler opens its connection.                 *)
(***************************************************************************)
EXTENDS Integers, Sequences, FiniteSets, TLC

\* Bounds of the model: the worker processes, the requests served, and the
\* requests served when init_db may run again at any time.
MaxWorkers == 2
MaxReqs == 3
MaxRestartReqs == 2

Workers == 1..MaxWorkers
Names == {"alice", "bob"}
NoName == "-"

VARIABLES
  schema,      \* the tables of the database: a set of table definitions
  users,       \* the committed rows of the users table
  nextId,      \* the sequence behind id SERIAL
  now,         \* the store's clock
  initRuns,    \* whether init_db has run: "never", "once" or "again"
  initOut,     \* what the last step printed, <<>> when it printed nothing
  pc,          \* each worker's position in the handler it runs, or "idle"
  op,          \* the route of the worker's request: "hello" or "list"
  name,        \* hello's parameter name
  conn,        \* the handler's connection: "none", "open" or "closed"
  txn,         \* the start time of the connection's transaction, 0 when none
  user,        \* hello's local variable user: the row fetched, or NoRow
  pending,     \* the row the transaction inserted and has not committed
  message,     \* hello's local variable message
  fetched,     \* list_users' local variable users
  returned,    \* what the last step returned, with the request's history;
               \* NoReturn when the last step was no return of a handler
  \* history, read only by the properties
  fresh,       \* the name had no row when the request arrived
  solo,        \* no other request was in flight during the request
  raced,       \* another hello for the name had found no row and not committed
  rivalOut,    \* how the raced requests for the name that returned first ended
  preds,       \* the ids of the rows committed when the request arrived
  rowIds,      \* the ids of the rows the request inserted
  snapshot,    \* the committed rows when list_users ran its SELECT
  ledger       \* the pairs <<a, b>> of row ids: a was committed before the
               \* request that inserted b arrived

storeVars == <<schema, users, nextId, now>>
reqVars == <<pc, op, name, conn, txn, user, pending, message, fetched>>
histVars == <<fresh, solo, raced, rivalOut, preds, rowIds, snapshot, ledger>>
vars == <<storeVars, initRuns, initOut, reqVars, returned, histVars>>

NoTables == {}
\* CREATE TABLE users (id SERIAL PRIMARY KEY, username VARCHAR(255) UNIQUE NOT NULL,
\*                     created_at TIMESTAMP DEFAULT CURRENT_TIMESTAMP)
UsersTable ==
  [table |-> "users",
   id |-> "SERIAL PRIMARY KEY",
   username |-> "VARCHAR(255) UNIQUE NOT NULL",
   created_at |-> "TIMESTAMP DEFAULT CURRENT_TIMESTAMP"]

NoRow == [id |-> 0, username |-> NoName, created_at |-> 0]
NoResp == [none |-> NoName]

\* A slip: the branch of an existing user answers with the other message.
WelcomeBackSwapped(n) == <<"Hello, ", n, ". You've been added to the list!">>
\* {"message": f"Welcome back, {name}!"}
WelcomeBack(n) == <<"Welcome back, ", n, "!">>
\* {"message": f"Hello, {name}. You've been added to the list!"}
Added(n) == <<"Hello, ", n, ". You've been added to the list!">>
MessageResponse(m) == [message |-> m]
\* A slip: the failure is reported under the framework's key "detail".
ErrorResponseDetail(e) == [detail |-> <<"Database error: ", e>>]
\* except Exception as e: return {"error": f"Database error: {str(e)}"}
ErrorResponse(e) == [error |-> <<"Database error: ", e>>]
\* {"users": [{"username": user[0], "created_at": user[1]} for user in users]}
UsersResponse(rows) ==
  [users |-> [i \in DOMAIN rows |->
                [username |-> rows[i][1], created_at |-> rows[i][2]]]]

\* What the store's failures say (str(e)).
CouldNotConnect == "could not connect to server"
ConnectionLost == "server closed the connection unexpectedly"
NoRelation == "relation \"users\" does not exist"
DuplicateKey == "duplicate key value violates unique constraint"
AlreadyClosed == "connection already closed"

InFlight(w) == pc[w] # "idle"
HasTable(s, t) == \E d \in s : d.table = t

\* SELECT username, created_at FROM users WHERE username = %s; fetchone()
SelectByUsername(n) ==
  IF \E u \in users : u.username = n
    THEN CHOOSE u \in users : u.username = n
    ELSE NoRow

\* A slip: the username column is declared without UNIQUE.
UniqueViolationNever(n) == FALSE
\* The UNIQUE index on username refuses a second row with the username.
UniqueViolation(n) == \E u \in users : u.username = n

NoReturn ==
  [op |-> "none", name |-> NoName, resp |-> NoResp, conn |-> "none",
   failed |-> "none", fresh |-> FALSE, solo |-> FALSE, raced |-> FALSE,
   rivalOut |-> {}, rivalsLeft |-> FALSE, rowIds |-> {}, snapshot |-> {}]

Init ==
  /\ schema = NoTables
  /\ users = {}
  /\ nextId = 1
  /\ now = 0
  /\ initRuns = "never"
  /\ initOut = <<>>
  /\ pc = [w \in Workers |-> "idle"]
  /\ op = [w \in Workers |-> "none"]
  /\ name = [w \in Workers |-> NoName]
  /\ conn = [w \in Workers |-> "none"]
  /\ txn = [w \in Workers |-> 0]
  /\ user = [w \in Workers |-> NoRow]
  /\ pending = [w \in Workers |-> NoRow]
  /\ message = [w \in Workers |-> <<>>]
  /\ fetched = [w \in Workers |-> <<>>]
  /\ returned = NoReturn
  /\ fresh = [w \in Workers |-> FALSE]
  /\ solo = [w \in Workers |-> FALSE]
  /\ raced = [w \in Workers |-> FALSE]
  /\ rivalOut = [w \in Workers |-> {}]
  /\ preds = [w \in Workers |-> {}]
  /\ rowIds = [w \in Workers |-> {}]
  /\ snapshot = [w \in Workers |-> {}]
  /\ ledger = {}

\* psycopg2.connect(...): what the caller holds afterwards.
get_db_connection(ok) == IF ok THEN "open" ELSE "none"

\* A slip: CREATE TABLE users (...), which raises when the table exists.
CreateTable(db) ==
  IF HasTable(db.schema, "users")
    THEN [schema |-> db.schema, users |-> db.users,
          error |-> "relation \"users\" already exists"]
    ELSE [schema |-> db.schema \cup {UsersTable}, users |-> {}, error |-> "none"]

\* A slip: DROP TABLE IF EXISTS users; CREATE TABLE users (...).
DropAndCreateTable(db) ==
  [schema |-> {d \in db.schema : d.table # "users"} \cup {UsersTable},
   users |-> {}, error |-> "none"]

\* cursor.execute("CREATE TABLE IF NOT EXISTS users (...)") on the database db:
\* an existing table is left alone, with its rows; error is what it raises.
CreateTableIfNotExists(db) ==
  IF HasTable(db.schema, UsersTable.table)
    THEN [schema |-> db.schema, users |-> db.users, error |-> "none"]
    ELSE [schema |-> db.schema \cup {UsersTable}, users |-> {}, error |-> "none"]

\* init_db(): connect, create the table if it does not exist, commit, close;
\* an exception of any store call is printed, none is raised.
init_db(ok) ==
  /\ initRuns' = IF initRuns = "never" THEN "once" ELSE "again"
  /\ LET res == CreateTableIfNotExists([schema |-> schema, users |-> users])
         e == IF get_db_connection(ok) = "open" THEN res.error ELSE CouldNotConnect
     IN  IF e = "none"
           THEN /\ schema' = res.schema
                /\ users' = res.users
                /\ initOut' = <<"Database initialized successfully">>
           ELSE /\ UNCHANGED <<schema, users>>
                /\ initOut' = <<"Error initializing database: ", e>>
  /\ returned' = NoReturn
  /\ UNCHANGED <<nextId, now>>
  /\ UNCHANGED <<reqVars, histVars>>

\* @app.on_event("startup"): init_db runs before the process serves a request;
\* a restarted or a further process runs it again.
startup_event == \E ok \in BOOLEAN : init_db(ok)

\* How a request ended, as its rivals see it.
Ending(r, step) ==
  IF step = "none" /\ DOMAIN r = {"message"} THEN "added"
  ELSE IF step = "unique" THEN "unique" ELSE "other"

\* The handler of worker w returns response r with its connection in state c;
\* step is the store call that failed, "none" when none did, and ids are the
\* rows the request inserted.  The frame's locals are gone and the worker is idle.
ReturnIds(w, r, c, step, ids) ==
  /\ returned' = [op |-> op[w], name |-> name[w], resp |-> r, conn |-> c,
                  failed |-> step, fresh |-> fresh[w], solo |-> solo[w],
                  raced |-> raced[w], rivalOut |-> rivalOut[w],
                  rivalsLeft |-> \E q \in Workers \ {w} :
                                   raced[w] /\ raced[q] /\ name[q] = name[w],
                  rowIds |-> ids, snapshot |-> snapshot[w]]
  /\ pc' = [pc EXCEPT ![w] = "idle"]
  /\ op' = [op EXCEPT ![w] = "none"]
  /\ name' = [name EXCEPT ![w] = NoName]
  /\ conn' = [conn EXCEPT ![w] = "none"]
  /\ txn' = [txn EXCEPT ![w] = 0]
  /\ user' = [user EXCEPT ![w] = NoRow]
  /\ message' = [message EXCEPT ![w] = <<>>]
  /\ fetched' = [fetched EXCEPT ![w] = <<>>]
  /\ fresh' = [fresh EXCEPT ![w] = FALSE]
  /\ solo' = [solo EXCEPT ![w] = FALSE]
  /\ raced' = [raced EXCEPT ![w] = FALSE]
  /\ rivalOut' = [q \in Workers |->
                    IF q = w THEN {}
                    ELSE IF raced[w] /\ raced[q] /\ name[q] = name[w]
                      THEN rivalOut[q] \cup {Ending(r, step)}
                      ELSE rivalOut[q]]
  /\ preds' = [preds EXCEPT ![w] = {}]
  /\ rowIds' = [rowIds EXCEPT ![w] = {}]
  /\ snapshot' = [snapshot EXCEPT ![w] = {}]

Return(w, r, c, step) == ReturnIds(w, r, c, step, rowIds[w])

\* A slip: a refused duplicate is answered as an existing user.
RaiseUnlessDuplicate(w, step, e) ==
  IF step = "unique"
    THEN Return(w, MessageResponse(<<"Welcome back, ", name[w], "!">>), conn[w], step)
    ELSE Return(w, ErrorResponse(e), conn[w], step)

\* except Exception as e: return {"error": f"Database error: {str(e)}"}: the
\* handler returns from where the store call failed; nothing after it in the
\* try block runs, so the connection stays as it is.
Raise(w, step, e) == Return(w, ErrorResponse(e), conn[w], step)

\* A request is routed to an idle worker (the workers are alike: the first
\* idle one takes it), whose handler starts:
\* conn = get_db_connection(); cursor = conn.cursor()
\* When the connect fails the handler returns the error object at once.
Arrive(w, o, n, ok) ==
  /\ initRuns # "never"
  /\ ~InFlight(w)
  /\ \A q \in Workers : q < w => InFlight(q)
  /\ now' = now + 1
  /\ IF ok
       THEN /\ pc' = [pc EXCEPT ![w] = "select"]
            /\ op' = [op EXCEPT ![w] = o]
            /\ name' = [name EXCEPT ![w] = n]
            /\ conn' = [conn EXCEPT ![w] = get_db_connection(ok)]
            /\ fresh' = [fresh EXCEPT ![w] =
                           o = "hello" /\ SelectByUsername(n) = NoRow]
            /\ solo' = [q \in Workers |-> q = w /\ \A x \in Workers : ~InFlight(x)]
            /\ preds' = [preds EXCEPT ![w] = {u.id : u \in users}]
            /\ returned' = NoReturn
            /\ UNCHANGED <<raced, rivalOut>>
       ELSE /\ returned' = [NoReturn EXCEPT
                              !.op = o, !.name = n,
                              !.resp = ErrorResponse(CouldNotConnect),
                              !.conn = get_db_connection(ok),
                              !.failed = "connect",
                              !.fresh = o = "hello" /\ SelectByUsername(n) = NoRow,
                              !.solo = \A x \in Workers : ~InFlight(x)]
            /\ solo' = [q \in Workers |-> FALSE]
            /\ UNCHANGED <<pc, op, name, conn, fresh, preds, raced, rivalOut>>
  /\ initOut' = <<>>
  /\ UNCHANGED <<schema, users, nextId, initRuns>>
  /\ UNCHANGED <<txn, user, pending, message, fetched>>
  /\ UNCHANGED <<rowIds, snapshot, ledger>>

\* The requests that found no row for the name of w and have not committed.
Rivals(w) == {q \in Workers \ {w} : pc[q] \in {"insert", "commit"} /\ name[q] = name[w]}

\* hello: cursor.execute("SELECT ... WHERE username = %s"); user = cursor.fetchone();
\* if user: message = "Welcome back, ..."
hello_select(w, ok) ==
  /\ pc[w] = "select"
  /\ op[w] = "hello"
  /\ IF ok /\ HasTable(schema, "users")
       THEN /\ txn' = [txn EXCEPT ![w] = now]
            /\ user' = [user EXCEPT ![w] = SelectByUsername(name[w])]
            /\ IF user'[w] # NoRow
                 THEN /\ message' = [message EXCEPT ![w] = WelcomeBack(name[w])]
                      /\ pc' = [pc EXCEPT ![w] = "close"]
                      /\ raced' = raced
                 ELSE /\ message' = message
                      /\ pc' = [pc EXCEPT ![w] = "insert"]
                      /\ raced' = [q \in Workers |->
                                     IF q = w THEN Rivals(w) # {}
                                     ELSE raced[q] \/ q \in Rivals(w)]
            /\ returned' = NoReturn
            /\ UNCHANGED <<op, name, conn, fetched>>
            /\ UNCHANGED <<fresh, solo, rivalOut, preds, rowIds, snapshot>>
       ELSE Raise(w, "select", IF ok THEN NoRelation ELSE ConnectionLost)
  /\ initOut' = <<>>
  /\ UNCHANGED <<storeVars, initRuns, pending, ledger>>

\* Another transaction holds an uncommitted row with this username: the
\* INSERT waits on the unique index until that transaction ends.
Blocked(w) == \E q \in Workers \ {w} : pending[q].username = name[w]

\* A slip: the connection is set to autocommit, so an INSERT whose
\* acknowledgement is lost has stored its row when the call raises.
hello_insert_autocommit(w, ok) ==
  /\ pc[w] = "insert"
  /\ ~Blocked(w)
  /\ IF UniqueViolation(name[w])
       THEN /\ Raise(w, "unique", DuplicateKey)
            /\ UNCHANGED <<nextId, pending, users>>
       ELSE /\ nextId' = nextId + 1
            /\ IF ok
                 THEN /\ pending' = [pending EXCEPT ![w] =
                                       [id |-> nextId, username |-> name[w],
                                        created_at |-> txn[w]]]
                      /\ rowIds' = [rowIds EXCEPT ![w] = @ \cup {nextId}]
                      /\ pc' = [pc EXCEPT ![w] = "commit"]
                      /\ returned' = NoReturn
                      /\ UNCHANGED <<op, name, conn, txn, user, message, fetched>>
                      /\ UNCHANGED <<fresh, solo, raced, rivalOut, preds, snapshot>>
                      /\ UNCHANGED users
                 ELSE /\ users' = users \cup {[id |-> nextId, username |-> name[w],
                                               created_at |-> txn[w]]}
                      /\ ReturnIds(w, ErrorResponse(ConnectionLost), conn[w],
                                   "insert", rowIds[w] \cup {nextId})
                      /\ UNCHANGED pending
  /\ initOut' = <<>>
  /\ UNCHANGED <<schema, now, initRuns, ledger>>

\* hello: cursor.execute("INSERT INTO users (username) VALUES (%s)")
hello_insert(w, ok) ==
  /\ pc[w] = "insert"
  /\ IF ~ok
       THEN /\ Raise(w, "insert", ConnectionLost)
            /\ UNCHANGED <<nextId, pending>>
       ELSE /\ ~Blocked(w)
            /\ IF UniqueViolation(name[w])
                 THEN /\ Raise(w, "unique", DuplicateKey)
                      /\ UNCHANGED <<nextId, pending>>
                 ELSE /\ nextId' = nextId + 1
                      /\ pending' = [pending EXCEPT ![w] =
                                       [id |-> nextId, username |-> name[w],
                                        created_at |-> txn[w]]]
                      /\ rowIds' = [rowIds EXCEPT ![w] = @ \cup {nextId}]
                      /\ pc' = [pc EXCEPT ![w] = "commit"]
                      /\ returned' = NoReturn
                      /\ UNCHANGED <<op, name, conn, txn, user, message, fetched>>
                      /\ UNCHANGED <<fresh, solo, raced, rivalOut, preds, snapshot>>
  /\ initOut' = <<>>
  /\ UNCHANGED <<schema, users, now, initRuns, ledger>>

\* A slip: conn.commit() is missing and the transaction is rolled back.
CommitMissing(rows, row) == rows
\* conn.commit(): the transaction's row joins the committed rows.
Commit(rows, row) == rows \cup {row}

\* hello: conn.commit(); message = "Hello, ... You've been added to the list!"
\* A commit that raises was refused ("failed") or was applied by the server
\* with its acknowledgement lost ("lost").
hello_commit(w, outcome) ==
  /\ pc[w] = "commit"
  /\ pending' = [pending EXCEPT ![w] = NoRow]
  /\ IF outcome = "failed"
       THEN UNCHANGED <<users, ledger>>
       ELSE /\ users' = Commit(users, pending[w])
            /\ ledger' = ledger \cup {<<a, pending[w].id>> : a \in preds[w]}
  /\ IF outcome = "ok"
       THEN /\ message' = [message EXCEPT ![w] = Added(name[w])]
            /\ pc' = [pc EXCEPT ![w] = "close"]
            /\ returned' = NoReturn
            /\ UNCHANGED <<op, name, conn, txn, user, fetched>>
            /\ UNCHANGED <<fresh, solo, raced, rivalOut, preds, rowIds, snapshot>>
       ELSE Raise(w, "commit", ConnectionLost)
  /\ initOut' = <<>>
  /\ UNCHANGED <<schema, nextId, now, initRuns>>

\* hello: cursor.close(); conn.close(); return {"message": message}
hello_close(w, ok) ==
  /\ pc[w] = "close"
  /\ op[w] = "hello"
  /\ IF ok
       THEN Return(w, MessageResponse(message[w]), "closed", "none")
       ELSE Raise(w, "close", AlreadyClosed)
  /\ initOut' = <<>>
  /\ UNCHANGED <<storeVars, initRuns, pending, ledger>>

\* The sequences that hold every row of rows exactly once.
Listings(rows) ==
  {s \in [1..Cardinality(rows) -> rows] :
     \A i, j \in DOMAIN s : i # j => s[i] # s[j]}

\* A slip: ORDER BY created_at DESC.
OrderByCreatedAtDesc(rows) ==
  {s \in Listings(rows) :
     \A i, j \in DOMAIN s : i < j => s[i].created_at >= s[j].created_at}

\* ORDER BY created_at: ascending, rows of equal created_at in any order.
OrderByCreatedAt(rows) ==
  {s \in Listings(rows) :
     \A i, j \in DOMAIN s : i < j => s[i].created_at <= s[j].created_at}

\* list_users: cursor.execute("SELECT username, created_at FROM users ORDER BY
\* created_at"); users = cursor.fetchall()
list_select(w, ok) ==
  /\ pc[w] = "select"
  /\ op[w] = "list"
  /\ IF ok /\ HasTable(schema, "users")
       THEN /\ txn' = [txn EXCEPT ![w] = now]
            /\ \E s \in OrderByCreatedAt(users) :
                 fetched' = [fetched EXCEPT ![w] =
                               [i \in DOMAIN s |-> <<s[i].username, s[i].created_at>>]]
            /\ snapshot' = [snapshot EXCEPT ![w] = users]
            /\ pc' = [pc EXCEPT ![w] = "close"]
            /\ returned' = NoReturn
            /\ UNCHANGED <<op, name, conn, user, message>>
            /\ UNCHANGED <<fresh, solo, raced, rivalOut, preds, rowIds>>
       ELSE Raise(w, "select", IF ok THEN NoRelation ELSE ConnectionLost)
  /\ initOut' = <<>>
  /\ UNCHANGED <<storeVars, initRuns, pending, ledger>>

\* list_users: cursor.close(); conn.close(); return {"users": [...]}
list_close(w, ok) ==
  /\ pc[w] = "close"
  /\ op[w] = "list"
  /\ IF ok
       THEN Return(w, UsersResponse(fetched[w]), "closed", "none")
       ELSE Raise(w, "close", AlreadyClosed)
  /\ initOut' = <<>>
  /\ UNCHANGED <<storeVars, initRuns, pending, ledger>>

\* GET /hello/{name} or GET /users arrives at worker w.
Request(w) ==
  \/ \E n \in Names, ok \in BOOLEAN : Arrive(w, "hello", n, ok)
  \/ \E ok \in BOOLEAN : Arrive(w, "list", NoName, ok)

\* async def hello(name): one step of the handler after its first.
hello(w) ==
  \/ \E ok \in BOOLEAN : hello_select(w, ok)
  \/ \E ok \in BOOLEAN : hello_insert(w, ok)
  \/ \E outcome \in {"ok", "lost", "failed"} : hello_commit(w, outcome)
  \/ \E ok \in BOOLEAN : hello_close(w, ok)

\* async def list_users(): one step of the handler after its first.
list_users(w) ==
  \/ \E ok \in BOOLEAN : list_select(w, ok)
  \/ \E ok \in BOOLEAN : list_close(w, ok)

\* The service: startup, then up to MaxReqs requests on the workers.
Next ==
  \/ initRuns = "never" /\ startup_event
  \/ now < MaxReqs /\ \E w \in Workers : Request(w)
  \/ \E w \in Workers : hello(w)
  \/ \E w \in Workers : list_users(w)

Spec == Init /\ [][Next]_vars

\* The service with processes that start or restart at any time, each running
\* init_db again.
NextRestart ==
  \/ startup_event
  \/ now < MaxRestartReqs /\ \E w \in Workers : Request(w)
  \/ \E w \in Workers : hello(w)
  \/ \E w \in Workers : list_users(w)

SpecRestart == Init /\ [][NextRestart]_vars

(***************************************************************************)
(* The claims.                                                             *)
(***************************************************************************)

RowsOf(n) == {u \in users : u.username = n}
RowsAddedBy(ids) == {u \in users : u.id \in ids}
IsHello == returned.op = "hello"
IsList == returned.op = "list"
IsError(r) == DOMAIN r = {"error"}

\* C1: a hello(n) for a name n that had no row when it arrived, run with no
\* store failure and with no other request in flight, returns exactly
\* {"message": "Hello, n. You've been added to the list!"}, and when it has
\* returned the users table holds a committed row whose username is n.
C1_FirstHelloAdds ==
  (IsHello /\ returned.fresh /\ returned.solo /\ returned.failed = "none")
    => /\ returned.resp =
            [message |-> <<"Hello, ", returned.name, ". You've been added to the list!">>]
       /\ RowsOf(returned.name) # {}

C1_Witness ==
  /\ IsHello /\ returned.fresh /\ returned.solo /\ returned.failed = "none"
  /\ returned.name = "alice"
  /\ Cardinality(users) = 2

\* C2: every step of a hello(n) for a name n that had a row when it arrived
\* leaves the users table as it is, and when the request returns without a
\* store failure it returns exactly {"message": "Welcome back, n!"}; so it is
\* for every such request, however many came before.
C2_KnownHelloWelcomesBack ==
  [][\A w \in Workers :
       (op[w] = "hello" /\ ~fresh[w] /\ pc'[w] # pc[w])
         => /\ users' = users
            /\ (returned' # NoReturn /\ returned'.failed = "none")
                 => returned'.resp = [message |-> <<"Welcome back, ", name[w], "!">>]]_vars

C2_Witness ==
  /\ IsHello /\ ~returned.fresh /\ returned.failed = "none"
  /\ returned.resp = [message |-> <<"Welcome back, ", "alice", "!">>]
  /\ now = 3

\* C3: in every reachable state, whatever the interleaving of the requests,
\* no two rows of the users table have the same username.
C3_UsernamesUnique ==
  \A u, v \in users : u.username = v.username => u = v

C3_Witness ==
  /\ IsHello /\ returned.raced /\ returned.failed = "unique"
  /\ Cardinality(RowsOf(returned.name)) = 1

\* The places of the row u in the listing out.
Places(out, u) ==
  {i \in DOMAIN out : out[i] = [username |-> u.username, created_at |-> u.created_at]}

\* C4: a list_users that returns without a store failure returns every row
\* the users table held at its SELECT exactly once, in ascending order of
\* created_at; and a row committed before the request that inserted another
\* row arrived stands before that row.
C4_ListOrdered ==
  (IsList /\ returned.failed = "none")
    => LET out == returned.resp.users
           rows == returned.snapshot
       IN  /\ DOMAIN returned.resp = {"users"}
           /\ DOMAIN out = 1..Cardinality(rows)
           /\ \A u \in rows : Cardinality(Places(out, u)) = 1
           /\ \A i, j \in DOMAIN out : i < j => out[i].created_at <= out[j].created_at
           /\ \A a, b \in rows :
                <<a.id, b.id>> \in ledger
                  => \A i \in Places(out, a), j \in Places(out, b) : i < j

C4_Witness ==
  /\ IsList /\ returned.failed = "none"
  /\ \E a, b \in returned.snapshot :
       /\ <<a.id, b.id>> \in ledger
       /\ a.username = "alice" /\ b.username = "bob"
       /\ returned.resp.users[1].username = "alice"
       /\ returned.resp.users[2].username = "bob"

\* C5: when get_db_connection fails, hello and list_users return a response
\* whose only key is "error" and whose value is "Database error: " followed by
\* the failure's description, and the step leaves the users table unchanged.
C5_UnreachableStore ==
  [][returned'.failed = "connect"
       => /\ returned'.op \in {"hello", "list"}
          /\ DOMAIN returned'.resp = {"error"}
          /\ returned'.resp.error = <<"Database error: ", "could not connect to server">>
          /\ users' = users
          /\ returned'.rowIds = {}]_vars

C5_Witness ==
  /\ IsList /\ returned.failed = "connect" /\ users # {}

\* C6 (as claimed): a request that opened a connection has closed it when it
\* returns, on every path through the handler.
C6_ConnectionClosedAtReturn ==
  (returned # NoReturn /\ returned.failed # "connect") => returned.conn = "closed"

ListStep ==
  \/ \E w \in Workers : op[w] = "list" /\ pc'[w] # pc[w]
  \/ \E w \in Workers : op'[w] = "list" /\ op[w] # "list"
  \/ returned'.op = "list"

\* C8: across hello, list_users and init_db, a row once in the users table is
\* in it, with its username and its created_at, in every later state; and a
\* step of list_users leaves the table as it is.
C8_RowsOnlyAdded ==
  [][/\ users \subseteq users'
     /\ ListStep => users' = users]_vars

C8_Witness ==
  /\ initRuns = "again"
  /\ IsList /\ returned.failed = "none"
  /\ returned.snapshot # {}
  /\ users = returned.snapshot

C10_ErrorMeansNothingAdded ==
  (IsHello /\ IsError(returned.resp)) => RowsAddedBy(returned.rowIds) = {}

\* C10 (amended): a hello request adds at most one row to the users table,
\* and when it returns the error object because the connect, the SELECT or the
\* INSERT failed, the table holds no row that it added.  (After a failure of
\* commit or close the row may be there.)
C10_AtMostOneRow ==
  /\ \A w \in Workers : Cardinality(RowsAddedBy(rowIds[w])) <= 1
  /\ IsHello => Cardinality(RowsAddedBy(returned.rowIds)) <= 1
  /\ (IsHello /\ returned.failed \in {"connect", "select", "insert", "unique"})
       => /\ IsError(returned.resp)
          /\ RowsAddedBy(returned.rowIds) = {}

C10_Witness ==
  /\ IsHello /\ returned.failed = "insert" /\ IsError(returned.resp)
  /\ users # {}

====
